---- MODULE Spec2Model ----
(***************************************************************************)
(* Model of the React static-build controllers:                            *)
(*   litestar_react/controller.py  BaseReactController (root)              *)
(*   starlite_react/controller.py  ReactController (static_files,          *)
(*                                  root_files)                            *)
(*                                                                         *)
(* Representation.                                                         *)
(*  - A file name is the sequence of its dot-separated parts:              *)
(*    "main.js.map" is <<"main","js","map">>.                              *)
(*  - A path is a sequence of names; a pathlib Path object is a record     *)
(*    [anchor, segs] where anchor is the number of leading slashes that    *)
(*    pathlib keeps (0, 1 or 2).                                           *)
(*  - bytes and str are sequences of numbers (bytes, code points).         *)
(*  - The file system is a function from the absolute paths of the regular *)
(*    files to their bytes.                                                *)
(***************************************************************************)
EXTENDS Integers, Sequences, FiniteSets, TLC

VARIABLES
  variant,              \* which controller the application registers
  disk,                 \* regular files: absolute path -> bytes
  replacement_values,   \* litestar: ordered token -> value map (dict order)
  cache,                \* lru_cache of get_file_contents, least recent first
  index_file_headers,   \* class-level header list (litestar)
  static_file_headers,  \* class-level header list (litestar)
  req,                  \* the request handled last
  scope_root_path,      \* starlite: request.scope["root_path"] of the mount
  resp,                 \* the response (or error) it produced
  hit,                  \* whether its bytes came from the cache (cache_info().hits)
  watch,                \* history: a cache key that is followed, or NoKey
  first                 \* history: the bytes first returned for `watch`

vars == <<variant, disk, replacement_values, cache, index_file_headers,
          static_file_headers, req, scope_root_path, resp, hit, watch, first>>

(***************************** bounds **************************************)

\* most ".." segments of a requested path
MaxUp == 1
\* most leading slashes of a raw requested path
MaxLead == 3
\* capacity of the lru_cache in the model (functools' default is 128)
LruMaxSize == 1
\* rewrite inputs: longest file content, most rules of replacement_values
MaxContentLen == 3
MaxRules == 2

(************************** names and paths ********************************)

\* Python's None, as a value comparable with Path records
None == [anchor |-> -1, segs |-> <<>>]

\* the litestar handler takes no root_path
NoRootPath == <<-1>>

DotDot == <<"..">>

StaticSeg == <<"static">>

IndexHtml == <<"index", "html">>

MainJsMap == <<"main", "js", "map">>

LogoPng == <<"logo", "png">>

OneName == <<"one">>

\* BaseReactController.directory / ReactController.directory: "/build"
directory == << <<"build">> >>

default_index == IndexHtml

\* static_file_path = "/static", as the Path it is compared with
static_file_path == [anchor |-> 1, segs |-> <<StaticSeg>>]

replacement_file_suffixes == {"css", "html", "js", "json", "map"}

root_file_suffixes == {"css", "html", "js", "json", "map"}

RECURSIVE SeqsUpTo(_, _)
SeqsUpTo(S, n) ==
  IF n = 0 THEN {<<>>}
  ELSE LET shorter == SeqsUpTo(S, n - 1)
       IN shorter \cup {Append(s, x) : s \in {t \in shorter : Len(t) = n - 1}, x \in S}

RECURSIVE Ups(_)
Ups(n) == IF n = 0 THEN <<>> ELSE <<DotDot>> \o Ups(n - 1)

\* pathlib.PurePosixPath(raw): exactly two leading slashes are kept, three or
\* more collapse to one
PurePath(lead, segs) ==
  [anchor |-> IF lead = 2 THEN 2 ELSE IF lead >= 1 THEN 1 ELSE 0, segs |-> segs]

\* str(path)[1:] of the handlers: the text of the path without its first
\* character.  str(None) is "None", so None gives the relative path "one";
\* "/a/b" gives the relative "a/b"; "//a/b" gives the absolute "/a/b".
StrTail(path) ==
  IF path = None THEN [anchor |-> 0, segs |-> <<OneName>>]
  ELSE [anchor |-> IF path.anchor = 2 THEN 1 ELSE 0, segs |-> path.segs]

\* pathlib's base / rel for an absolute base: an absolute rel replaces base
Join(base, rel) == IF rel.anchor >= 1 THEN rel.segs ELSE base \o rel.segs

\* path.is_relative_to(static_file_path): lexical, part by part, anchor included
is_relative_to(path, other) ==
  /\ path.anchor = other.anchor
  /\ Len(path.segs) >= Len(other.segs)
  /\ SubSeq(path.segs, 1, Len(other.segs)) = other.segs

\* `path and path.is_relative_to(...)`: None is falsy, a Path is always truthy
is_static_file(path) == path # None /\ is_relative_to(path, static_file_path)

(***************************** file system *********************************)

Missing == << <<>> >>

\* the directories: the asset directory and every ancestor of a file
Dirs(d) ==
  UNION {{SubSeq(f, 1, k) : k \in 0..(Len(f) - 1)} : f \in DOMAIN d}
    \cup {<<>>, directory}

Parent(p) == IF p = <<>> THEN <<>> ELSE SubSeq(p, 1, Len(p) - 1)

\* the kernel's path walk: every component but the last must be a directory,
\* ".." steps to the parent
RECURSIVE Walk(_, _, _)
Walk(d, cur, rest) ==
  IF rest = <<>> THEN cur
  ELSE IF cur \notin Dirs(d) THEN Missing
  ELSE IF Head(rest) = DotDot THEN Walk(d, Parent(cur), Tail(rest))
  ELSE Walk(d, Append(cur, Head(rest)), Tail(rest))

Resolve(d, fp) == Walk(d, <<>>, fp)

is_file(d, fp) == Resolve(d, fp) \in DOMAIN d

Inside(f) ==
  /\ Len(f) > Len(directory)
  /\ SubSeq(f, 1, Len(directory)) = directory

(******************************* bytes *************************************)

\* str.encode("utf-8") for code points below 2048
RECURSIVE Utf8(_)
Utf8(s) ==
  IF s = <<>> THEN <<>>
  ELSE (IF Head(s) < 128 THEN <<Head(s)>>
        ELSE <<192 + (Head(s) \div 64), 128 + (Head(s) % 64)>>) \o Utf8(Tail(s))

Contains(s, t) ==
  \E i \in 1..(Len(s) - Len(t) + 1) : SubSeq(s, i, i + Len(t) - 1) = t

\* bytes.replace(old, new): leftmost, non-overlapping occurrences; an empty
\* `old` matches before every byte and at the end
RECURSIVE ReplaceFirstOnly(_, _, _)
ReplaceFirstOnly(s, old, new) ==
  IF Len(s) < Len(old) \/ old = <<>> THEN s
  ELSE IF SubSeq(s, 1, Len(old)) = old
       THEN new \o SubSeq(s, Len(old) + 1, Len(s))
       ELSE <<Head(s)>> \o ReplaceFirstOnly(Tail(s), old, new)

RECURSIVE Replace(_, _, _)
Replace(s, old, new) ==
  IF old = <<>>
  THEN IF s = <<>> THEN new ELSE new \o <<Head(s)>> \o Replace(Tail(s), old, new)
  ELSE IF Len(s) < Len(old) THEN s
  ELSE IF SubSeq(s, 1, Len(old)) = old
       THEN new \o Replace(SubSeq(s, Len(old) + 1, Len(s)), old, new)
       ELSE <<Head(s)>> \o Replace(Tail(s), old, new)

(***************************** media type **********************************)

NoType == "no-type"

\* posixpath.splitext as guess_type uses it: the text after the last dot, none
\* for a name without a dot or with only a leading dot
Ext(name) ==
  IF Len(name) >= 2 /\ ~(Len(name) = 2 /\ name[1] = "") THEN name[Len(name)] ELSE ""

\* mimetypes.types_map, the entries for the extensions of a React build
TypesMap(ext) ==
  CASE ext = "html" -> "text/html"
    [] ext = "css"  -> "text/css"
    [] ext = "js"   -> "application/javascript"
    [] ext = "json" -> "application/json"
    [] ext = "png"  -> "image/png"
    [] ext = "ico"  -> "image/vnd.microsoft.icon"
    [] ext = "svg"  -> "image/svg+xml"
    [] ext = "txt"  -> "text/plain"
    [] OTHER        -> NoType

guess_type(name) == TypesMap(Ext(name))

\* name.endswith(".css.map") / name.endswith(".js.map")
EndsWithDot(name, a, b) ==
  /\ Len(name) >= 3
  /\ name[Len(name) - 1] = a
  /\ name[Len(name)] = b

\* path.name: the last component, empty for the root
Name(fp) == IF fp = <<>> THEN <<"">> ELSE fp[Len(fp)]

get_media_type_generic(fp) == guess_type(Name(fp))

\* get_media_type(path): NoType stands for the HTTPException(status_code=400)
get_media_type(fp) ==
  LET name == Name(fp)
  IN IF EndsWithDot(name, "css", "map") \/ EndsWithDot(name, "js", "map")
     THEN "application/json"
     ELSE guess_type(name)

(******************************* contents **********************************)

\* "{{PUBLIC_URL}}", the token of the test configurations, abbreviated "{U}"
PublicUrlToken == <<123, 85, 125>>

\* b"{{ROOT_PATH}}" of the starlite controller, abbreviated "{R}"
RootPathToken == <<123, 82, 125>>

\* replacement_values = {"{{PUBLIC_URL}}": "/a"}
BuildReplacements == <<[token |-> PublicUrlToken, value |-> <<47, 97>>]>>

\* the files a build tree may hold, and one file outside the asset directory
OptionalFiles ==
  { directory \o <<IndexHtml>>,
    directory \o <<OneName>>,
    directory \o <<StaticSeg, MainJsMap>> }

\* always there: an image of the build, and a file of the host outside it
FixedFiles == {directory \o <<LogoPng>>, <<LogoPng>>}

BuildContent(f) ==
  CASE f = directory \o <<IndexHtml>> -> <<60>> \o PublicUrlToken \o RootPathToken \o <<62>>
    [] f = directory \o <<OneName>> -> <<49>>
    [] f = directory \o <<LogoPng>> -> <<137>> \o PublicUrlToken \o RootPathToken
    [] f = directory \o <<StaticSeg, MainJsMap>> -> RootPathToken \o <<47>> \o PublicUrlToken
    [] OTHER -> <<0>>

Disks == {[f \in S \cup FixedFiles |-> BuildContent(f)] : S \in SUBSET OptionalFiles}

\* the root_path values of the ASGI scope: "" and "/t"
RootPaths == {<<>>, <<47, 116>>}

FileNames == {IndexHtml, MainJsMap, LogoPng}

\* requested paths: an optional "static", some "..", an optional file name
RequestSegs ==
  {pre \o Ups(n) \o tail :
     pre \in {<<>>, <<StaticSeg>>}, n \in 0..MaxUp,
     tail \in {<<>>} \cup {<<f>> : f \in FileNames}}

\* the Path objects a path-typed route parameter can hold
Paths == {PurePath(l, s) : l \in 1..MaxLead, s \in RequestSegs}

\* the Path objects of a str-typed parameter: one segment, no slash
Filenames == {PurePath(0, <<n>>) : n \in FileNames \cup {StaticSeg, DotDot}}

(***************************** lru_cache ***********************************)

CacheKeyByName(fp, rp) == [path |-> <<Name(fp)>>, root_path |-> rp]

CacheKeyPathOnly(fp, rp) == [path |-> fp, root_path |-> NoRootPath]

\* the key of a get_file_contents call: its arguments (self is the one controller)
CacheKey(fp, rp) == [path |-> fp, root_path |-> rp]

CacheHitNever(c, key) == FALSE

CacheHit(c, key) == \E i \in 1..Len(c) : c[i].key = key

CacheIndex(c, key) == CHOOSE i \in 1..Len(c) : c[i].key = key

CacheValue(c, key) == c[CacheIndex(c, key)].value

\* a hit becomes the most recently used entry
CacheTouch(c, key) ==
  LET i == CacheIndex(c, key)
  IN SubSeq(c, 1, i - 1) \o SubSeq(c, i + 1, Len(c)) \o <<c[i]>>

\* a miss is stored; beyond maxsize the least recently used entry is dropped
CachePut(c, key, value) ==
  LET c2 == Append(c, [key |-> key, value |-> value])
  IN IF Len(c2) > LruMaxSize THEN Tail(c2) ELSE c2

(************************** get_file_contents ******************************)

\* litestar: every rule of replacement_values, in insertion order
RECURSIVE ApplyRules(_, _)
ApplyRules(content, rules) ==
  IF rules = <<>> THEN content
  ELSE ApplyRules(Replace(content, Utf8(Head(rules).token), Utf8(Head(rules).value)),
                  Tail(rules))

\* path.suffix without its dot
suffix(fp) == Ext(Name(fp))

\* litestar body of get_file_contents, after open() succeeded
file_contents_litestar(content, cfg, fp) == ApplyRules(content, cfg)

\* starlite body of get_file_contents, after open() succeeded
file_contents_starlite(content, fp, rp) ==
  IF suffix(fp) \in root_file_suffixes
  THEN Replace(content, RootPathToken, IF rp # <<>> THEN Utf8(rp) ELSE <<>>)
  ELSE content

\* the cached call: a hit returns the stored bytes; a miss opens the file (a
\* missing file raises and stores nothing), rewrites and stores
get_file_contents(d, cfg, c, fp, rp) ==
  LET key == CacheKey(fp, rp)
  IN IF CacheHit(c, key)
     THEN [ok |-> TRUE, body |-> CacheValue(c, key), cache |-> CacheTouch(c, key),
           hit |-> TRUE]
     ELSE IF ~is_file(d, fp)
     THEN [ok |-> FALSE, body |-> <<>>, cache |-> c, hit |-> FALSE]
     ELSE LET content == d[Resolve(d, fp)]
              body == IF rp = NoRootPath
                      THEN file_contents_litestar(content, cfg, fp)
                      ELSE file_contents_starlite(content, fp, rp)
          IN [ok |-> TRUE, body |-> body, cache |-> CachePut(c, key, body),
              hit |-> FALSE]

(****************************** responses **********************************)

NoResp ==
  [status |-> "none", body |-> <<>>, media_type |-> NoType, headers |-> <<>>,
   file |-> Missing]

Err(status) ==
  [status |-> status, body |-> <<>>, media_type |-> NoType, headers |-> <<>>,
   file |-> Missing]

\* ReactFileResponse(content, headers, media_type); `file` records which file
\* of the disk the path of the served bytes resolves to
Ok(body, media_type, headers, file) ==
  [status |-> "OK", body |-> body, media_type |-> media_type, headers |-> headers,
   file |-> file]

\* media type, contents, response: the common tail of the three handlers
serve(d, cfg, c, fp, rp, headers) ==
  LET media_type == get_media_type(fp)
  IN IF media_type = NoType
     THEN [resp |-> Err("BadRequest"), cache |-> c, hit |-> FALSE]
     ELSE LET got == get_file_contents(d, cfg, c, fp, rp)
          IN [resp |-> IF got.ok
                       THEN Ok(got.body, media_type, headers, Resolve(d, fp))
                       ELSE Err("ServerError"),
              cache |-> got.cache, hit |-> got.hit]

(************************ litestar: root handler ***************************)

IndexFileHeaders == <<"cache-control: max-age=0, no-cache, no-store, must-revalidate">>

StaticFileHeaders == <<"cache-control: public, max-age=31536000, immutable">>

\* filepath = self.directory / str(path)[1:]
root_filepath(path) == Join(directory, StrTail(path))

root_headers_swapped(static, exists, idxH, stH) ==
  IF static THEN idxH ELSE IF ~exists THEN stH ELSE <<>>

\* the local list `headers` when the response is built
root_headers(static, exists, idxH, stH) ==
  IF static THEN stH ELSE IF ~exists THEN idxH ELSE <<>>

class_headers_aliased(static, exists, idxH, stH) ==
  [index |-> IF ~static /\ ~exists THEN idxH \o idxH ELSE idxH,
   static |-> IF static THEN stH \o stH ELSE stH]

\* the class-level lists after the call: `headers` is a fresh list, so `+=`
\* extends that list and leaves the class attributes alone
class_headers(static, exists, idxH, stH) == [index |-> idxH, static |-> stH]

raises_not_found_never(static, exists) == FALSE

\* the static branch: a missing static file raises NotFoundException
raises_not_found(static, exists) == static /\ ~exists

root_target_no_fallback(static, exists, filepath) == filepath

\* the file served: the default index when an app route names no file
root_target(static, exists, filepath) ==
  IF ~static /\ ~exists THEN directory \o <<default_index>> ELSE filepath

root(d, cfg, c, idxH, stH, path) ==
  LET filepath == root_filepath(path)
      static == is_static_file(path)
      exists == is_file(d, filepath)
  IN IF raises_not_found(static, exists)
     THEN [resp |-> Err("NotFound"), cache |-> c, hit |-> FALSE]
     ELSE serve(d, cfg, c, root_target(static, exists, filepath), NoRootPath,
                root_headers(static, exists, idxH, stH))

(******************* starlite: static_files, root_files ********************)

\* filepath = self.directory / "static" / str(path)[1:]
static_filepath(path) == Join(directory \o <<StaticSeg>>, StrTail(path))

static_files(d, c, root_path, path) ==
  LET filepath == static_filepath(path)
  IN IF raises_not_found(TRUE, is_file(d, filepath))
     THEN [resp |-> Err("NotFound"), cache |-> c, hit |-> FALSE]
     ELSE serve(d, <<>>, c, filepath, root_path, <<>>)

\* filepath = self.directory / filename if filename else self.directory
root_files_filepath(filename) ==
  IF filename # None THEN Join(directory, filename) ELSE directory

root_files(d, c, root_path, filename) ==
  LET filepath == root_files_filepath(filename)
  IN serve(d, <<>>, c, root_target(FALSE, is_file(d, filepath), filepath),
           root_path, <<>>)

(******************************* actions ***********************************)

NoReq == [handler |-> "none", path |-> None, root_path |-> NoRootPath]

Request(handler, path, root_path) ==
  [handler |-> handler, path |-> path, root_path |-> root_path]

NoKey == [path |-> Missing, root_path |-> NoRootPath]

NoBytes == <<-1>>

\* history of the followed key: the bytes of the first successful call with
\* it (a successful call leaves its key most recently used)
Observe(result) ==
  first' = IF /\ result.resp.status = "OK"
              /\ first = NoBytes
              /\ result.cache[Len(result.cache)].key = watch
           THEN result.resp.body
           ELSE first

Handled(request, result) ==
  /\ req' = request
  /\ resp' = result.resp
  /\ cache' = result.cache
  /\ hit' = result.hit
  /\ Observe(result)
  /\ UNCHANGED <<variant, disk, replacement_values, scope_root_path, watch>>

\* the root_path dependency: request.scope.get("root_path", "/")
get_root_path == scope_root_path

\* GET on the litestar controller: "/" (no path parameter) or "/{path:path}"
Root(path) ==
  /\ variant = "litestar"
  /\ LET static == is_static_file(path)
         exists == is_file(disk, root_filepath(path))
         lists == class_headers(static, exists, index_file_headers, static_file_headers)
     IN /\ Handled(Request("root", path, NoRootPath),
                   root(disk, replacement_values, cache, index_file_headers,
                        static_file_headers, path))
        /\ index_file_headers' = lists.index
        /\ static_file_headers' = lists.static

\* GET /static/{path:path} on the starlite controller
StaticFiles(path) ==
  /\ variant = "starlite"
  /\ Handled(Request("static_files", path, get_root_path),
             static_files(disk, cache, get_root_path, path))
  /\ UNCHANGED <<index_file_headers, static_file_headers>>

\* GET / or /{filename:str} on the starlite controller
RootFiles(filename) ==
  /\ variant = "starlite"
  /\ Handled(Request("root_files", filename, get_root_path),
             root_files(disk, cache, get_root_path, filename))
  /\ UNCHANGED <<index_file_headers, static_file_headers>>

InitController ==
  /\ cache = <<>>
  /\ index_file_headers = IndexFileHeaders
  /\ static_file_headers = StaticFileHeaders
  /\ req = NoReq
  /\ resp = NoResp
  /\ hit = FALSE
  /\ first = NoBytes

Init ==
  /\ \/ variant = "litestar" /\ scope_root_path = NoRootPath
     \/ variant = "starlite" /\ scope_root_path \in RootPaths
  /\ disk \in Disks
  /\ replacement_values = BuildReplacements
  /\ watch = NoKey
  /\ InitController

RootAny == \E path \in Paths \cup {None} : Root(path)

StaticFilesAny == \E path \in Paths : StaticFiles(path)

RootFilesAny == \E filename \in Filenames \cup {None} : RootFiles(filename)

Next == RootAny \/ StaticFilesAny \/ RootFilesAny

Spec == Init /\ [][Next]_vars

(********************* get_file_contents on drawn inputs *******************)

IndexFile == directory \o <<default_index>>

\* str keys and values of replacement_values: "a", "b", "ab" and
\* "", "b", "e-acute"
TokenStrings == {<<97>>, <<98>>, <<97, 98>>}

ValueStrings == {<<>>, <<98>>, <<233>>}

Rules == {[token |-> t, value |-> v] : t \in TokenStrings, v \in ValueStrings}

\* a dict: ordered, its keys distinct
RuleMaps ==
  {m \in SeqsUpTo(Rules, MaxRules) :
     \A i, j \in 1..Len(m) : i # j => m[i].token # m[j].token}

FileContents == SeqsUpTo({97, 98}, MaxContentLen)

RewritePaths == {None, PurePath(1, <<IndexHtml>>)}

InitRewrite ==
  /\ variant = "litestar"
  /\ scope_root_path = NoRootPath
  /\ \E content \in FileContents : disk = [f \in {IndexFile} |-> content]
  /\ replacement_values \in RuleMaps
  /\ watch = NoKey
  /\ InitController

RootRewrite == \E path \in RewritePaths : Root(path)

NextRewrite == RootRewrite

SpecRewrite == InitRewrite /\ [][NextRewrite]_vars

(***************** starlite under a changing root_path *********************)

StaticFile == directory \o <<StaticSeg, MainJsMap>>

\* the keys of the calls that read a rewritable file holding {{ROOT_PATH}}
WatchKeys == {CacheKey(fp, rp) : fp \in {IndexFile, StaticFile}, rp \in RootPaths}

\* the ASGI server hands the next requests another scope["root_path"]
Remount ==
  /\ variant = "starlite"
  /\ scope_root_path' \in RootPaths \ {scope_root_path}
  /\ UNCHANGED <<variant, disk, replacement_values, cache, index_file_headers,
                 static_file_headers, req, resp, hit, watch, first>>

InitMount ==
  /\ variant = "starlite"
  /\ scope_root_path \in RootPaths
  /\ disk \in Disks
  /\ replacement_values = BuildReplacements
  /\ watch \in WatchKeys
  /\ InitController

\* the requests followed under remounts: the static file, an image, a
\* missing static file, a path that climbs to the index; the root, the
\* index, an image and a client-side route
MountStaticPaths ==
  {PurePath(1, segs) :
     segs \in {<<MainJsMap>>, <<LogoPng>>, <<IndexHtml>>, <<DotDot, IndexHtml>>}}

MountFilenames ==
  {None} \cup {PurePath(0, <<n>>) : n \in {IndexHtml, LogoPng, MainJsMap}}

StaticFilesMount == \E path \in MountStaticPaths : StaticFiles(path)

RootFilesMount == \E filename \in MountFilenames : RootFiles(filename)

NextMount == StaticFilesMount \/ RootFilesMount \/ Remount

SpecMount == InitMount /\ [][NextMount]_vars

(******************* files rewritten under a running process ***************)

\* a build with its index, its static file and its image
StaleDisk ==
  [f \in {IndexFile, StaticFile} \cup FixedFiles |-> BuildContent(f)]

\* what a later build writes into the file: the content followed by "!"
Edited(f) == BuildContent(f) \o <<33>>

FileVersions(f) == {BuildContent(f), Edited(f)}

\* the file at path f gets another content; nothing tells the controller
WriteFile(f, content) ==
  /\ f \in DOMAIN disk
  /\ content # disk[f]
  /\ disk' = [disk EXCEPT ![f] = content]
  /\ UNCHANGED <<variant, replacement_values, cache, index_file_headers,
                 static_file_headers, req, scope_root_path, resp, hit, watch, first>>

\* the process ends and a new one imports the module: the lru_cache wrapper
\* and the class attributes are created anew
Restart ==
  /\ cache' = <<>>
  /\ index_file_headers' = IndexFileHeaders
  /\ static_file_headers' = StaticFileHeaders
  /\ req' = NoReq
  /\ resp' = NoResp
  /\ hit' = FALSE
  /\ first' = NoBytes
  /\ UNCHANGED <<variant, disk, replacement_values, scope_root_path, watch>>

InitStale ==
  /\ \/ variant = "litestar" /\ scope_root_path = NoRootPath
     \/ variant = "starlite" /\ scope_root_path \in RootPaths
  /\ disk = StaleDisk
  /\ replacement_values = BuildReplacements
  /\ watch \in {CacheKey(fp, scope_root_path) : fp \in {IndexFile, StaticFile}}
  /\ InitController

\* the requests followed while files change: the root, the index, the static
\* file and an image
StalePaths ==
  {None} \cup {PurePath(1, segs) :
                segs \in {<<IndexHtml>>, <<StaticSeg, MainJsMap>>, <<LogoPng>>}}

RootStale == \E path \in StalePaths : Root(path)

WriteAny ==
  \E f \in {IndexFile, StaticFile} : \E content \in FileVersions(f) :
    WriteFile(f, content)

NextStale ==
  RootStale \/ StaticFilesMount \/ RootFilesMount \/ WriteAny \/ Restart

SpecStale == InitStale /\ [][NextStale]_vars

(******************************* claims ************************************)

\* how the handlers classify the request handled last
AppRoute ==
  \/ req.handler = "root" /\ ~is_static_file(req.path)
  \/ req.handler = "root_files"

StaticRoute ==
  \/ req.handler = "root" /\ is_static_file(req.path)
  \/ req.handler = "static_files"

\* the file path the handler derives from the request
RequestedFile ==
  CASE req.handler = "root" -> root_filepath(req.path)
    [] req.handler = "static_files" -> static_filepath(req.path)
    [] req.handler = "root_files" -> root_files_filepath(req.path)
    [] OTHER -> Missing

RequestedExists == is_file(disk, RequestedFile)

\* the path whose name decides the media type: the one finally served
FinalFile == IF AppRoute /\ ~RequestedExists THEN IndexFile ELSE RequestedFile

C2_StaticMissingIsNotFound ==
  (StaticRoute /\ ~RequestedExists) => resp = Err("NotFound")

C2_Witness ==
  /\ req.handler = "root"
  /\ is_static_file(req.path)
  /\ ~RequestedExists
  /\ is_file(disk, IndexFile)
  /\ resp.status = "NotFound"

\* C3: traversal resistance: the file whose bytes are returned is always
\* located inside the asset directory.
C3_ServedFileInsideDirectory == resp.status = "OK" => Inside(resp.file)

\* rules that do not overlap: tokens and values are non-empty, and no token
\* overlaps another token or any value (neither occurs in the other, and no
\* non-empty end of one is a beginning of the other)
Overlaps(x, y) ==
  \/ Contains(x, y)
  \/ Contains(y, x)
  \/ \E k \in 1..Len(x) :
       k <= Len(y) /\ \/ SubSeq(x, Len(x) - k + 1, Len(x)) = SubSeq(y, 1, k)
                      \/ SubSeq(y, Len(y) - k + 1, Len(y)) = SubSeq(x, 1, k)

NonOverlapping(rules) ==
  \A i \in 1..Len(rules) :
    /\ Utf8(rules[i].token) # <<>>
    /\ Utf8(rules[i].value) # <<>>
    /\ \A j \in 1..Len(rules) :
         /\ ~Overlaps(Utf8(rules[i].token), Utf8(rules[j].value))
         /\ i # j => ~Overlaps(Utf8(rules[i].token), Utf8(rules[j].token))

SourceHasToken(rule) == Contains(disk[resp.file], Utf8(rule.token))

SourceHasNoToken ==
  \A i \in 1..Len(replacement_values) : ~SourceHasToken(replacement_values[i])

\* C4 as stated: for every replacement_values map, a token of the source is
\* absent from the returned content and its value is present; a source
\* without tokens is returned unchanged.
C4_EveryMapRewritesCleanly ==
  (req.handler = "root" /\ resp.status = "OK")
    => /\ \A i \in 1..Len(replacement_values) :
            SourceHasToken(replacement_values[i])
              => /\ ~Contains(resp.body, Utf8(replacement_values[i].token))
                 /\ Contains(resp.body, Utf8(replacement_values[i].value))
       /\ SourceHasNoToken => resp.body = disk[resp.file]

\* C4 amended: the same, the first part for maps whose rules do not overlap.
C4_NonOverlappingMapRewritesCleanly ==
  (req.handler = "root" /\ resp.status = "OK")
    => /\ NonOverlapping(replacement_values)
            => \A i \in 1..Len(replacement_values) :
                 SourceHasToken(replacement_values[i])
                   => /\ ~Contains(resp.body, Utf8(replacement_values[i].token))
                      /\ Contains(resp.body, Utf8(replacement_values[i].value))
       /\ SourceHasNoToken => resp.body = disk[resp.file]

C4_Witness ==
  /\ resp.status = "OK"
  /\ Len(replacement_values) = 2
  /\ NonOverlapping(replacement_values)
  /\ \A i \in 1..2 : SourceHasToken(replacement_values[i])
  /\ resp.body # disk[resp.file]
  /\ Contains(resp.body, <<195, 169>>)

\* C5: a served file whose extension is not in the rewritable-extension set
\* (replacement_file_suffixes, root_file_suffixes) is returned byte-identical
\* to the file on disk.
C5_OtherSuffixesUntouched ==
  (resp.status = "OK"
     /\ suffix(resp.file)
          \notin (IF variant = "litestar" THEN replacement_file_suffixes
                  ELSE root_file_suffixes))
    => resp.body = disk[resp.file]

\* the reference of C6: .css.map and .js.map are application/json, any other
\* name has the type of the extension table, or none
ReferenceType(name) ==
  IF /\ Len(name) >= 3
     /\ <<name[Len(name) - 1], name[Len(name)]>> \in {<<"css", "map">>, <<"js", "map">>}
  THEN "application/json"
  ELSE TypesMap(Ext(name))

\* C6: the media type is that of the name of the file finally served (after
\* the index fallback) and matches the reference; a name without a type
\* fails with the 400 error, no body and no type.
C6_MediaTypeOfServedName ==
  (req # NoReq /\ resp.status # "NotFound")
    => LET type == ReferenceType(Name(FinalFile))
       IN /\ (type = NoType) <=> (resp.status = "BadRequest")
          /\ resp.status = "BadRequest" => resp = Err("BadRequest")
          /\ resp.status = "OK" => resp.media_type = type

C6_Witness ==
  /\ resp.status = "OK"
  /\ Name(resp.file) = MainJsMap
  /\ resp.media_type = "application/json"
  /\ TypesMap(Ext(MainJsMap)) = NoType

\* C7: litestar root handler: a successful static response carries exactly
\* the immutable headers, a fallback response exactly the no-cache headers,
\* no response carries both, and the class-level lists never change.
C7_HeaderPolicy ==
  /\ index_file_headers = IndexFileHeaders
  /\ static_file_headers = StaticFileHeaders
  /\ (req.handler = "root" /\ resp.status = "OK")
       => /\ StaticRoute => resp.headers = StaticFileHeaders
          /\ (AppRoute /\ ~RequestedExists) => resp.headers = IndexFileHeaders
          /\ resp.headers \in {<<>>, IndexFileHeaders, StaticFileHeaders}

C7_Witness ==
  /\ req.handler = "root"
  /\ StaticRoute
  /\ resp.status = "OK"
  /\ resp.headers = StaticFileHeaders
  /\ cache # <<>>

\* C8: litestar, GET on the controller's own root (path = None): the default
\* index, as text/html with the no-cache headers, whatever else the asset
\* directory holds.
C8_RootServesIndex ==
  (req.handler = "root" /\ req.path = None /\ is_file(disk, IndexFile))
    => /\ resp.status = "OK"
       /\ resp.file = IndexFile
       /\ resp.media_type = "text/html"
       /\ resp.headers = IndexFileHeaders

ColdAnswer(request) ==
  CASE request.handler = "root" ->
         root(disk, replacement_values, <<>>, IndexFileHeaders, StaticFileHeaders,
              request.path).resp
    [] request.handler = "static_files" ->
         static_files(disk, <<>>, request.root_path, request.path).resp
    [] request.handler = "root_files" ->
         root_files(disk, <<>>, request.root_path, request.path).resp
    [] OTHER -> NoResp

\* C10: idempotence: whatever was handled before and whatever the cache
\* holds, the answer to a request (body, media type, headers) is the answer
\* the first such request got from the empty cache; so any two answers to the
\* same request are identical.
C10_Idempotent == resp = ColdAnswer(req)

C10_Witness ==
  /\ hit
  /\ resp.status = "OK"
  /\ resp.body # disk[resp.file]

\* the key of the successful call that produced the last response
LastKey == cache[Len(cache)].key

\* C11: starlite: whatever root_path values earlier requests had, the body of
\* a rewritable file holding {{ROOT_PATH}} has the token replaced by the
\* root_path of the request it answers (by nothing when that is empty).
C11_RootPathOfThisRequest ==
  (variant = "starlite" /\ resp.status = "OK"
     /\ suffix(resp.file) \in root_file_suffixes
     /\ Contains(disk[resp.file], RootPathToken))
    => /\ resp.body = Replace(disk[resp.file], RootPathToken, req.root_path)
       /\ ~Contains(resp.body, RootPathToken)
       /\ \A rp \in RootPaths \ {<<>>} :
            Contains(resp.body, rp) <=> rp = req.root_path

C11_Witness ==
  /\ first # NoBytes
  /\ resp.status = "OK"
  /\ LastKey.path = watch.path
  /\ LastKey.root_path # watch.root_path
  /\ req.root_path = <<47, 116>>
  /\ Contains(first, <<62>>)
  /\ ~Contains(first, <<47, 116>>)
  /\ Contains(resp.body, <<47, 116>>)

HandlerStep == req'.handler # "none" /\ UNCHANGED <<disk, scope_root_path>>

====
